---- MODULE Spec2Model ----
(***************************************************************************)
(* The gulp build script of tstlpp-vita (gulpfile.ts): one run of one of   *)
(* the tasks default, build, test:cmd and deploy.  A run constructs a      *)
(* VitaProject (toolchain probe, configuration read, validation) and then  *)
(* executes the body of the task.  External processes, the command socket  *)
(* and the FTP server are the environment: each of their operations        *)
(* succeeds or fails nondeterministically.                                 *)
(*                                                                         *)
(* JavaScript values: an object is a function from its keys; a value that  *)
(* may be undefined is a set with at most one element ({} is undefined).   *)
(* A path is a sequence of segments.                                       *)
(***************************************************************************)
EXTENDS Integers, Sequences, FiniteSets, TLC

VARIABLES
    task,           \* the gulp task of this run
    cfgFile,        \* ./vita-project.json: [exists, parses, json]
    fsys,           \* files of the project directory (system, out-src, assets, ...)
    osTmp,          \* files of os.tmpdir() written by this program
    outDir,         \* archives in config.outDir: [name, entries]
    tempDir,        \* staged files in config.tempDir: entries
    pc,             \* position of the run
    taskState,      \* what gulp sees of the task's promise
    error,          \* the thrown value, {} when none
    defaultsConfig, \* defaults.config (module-level, mutated by Object.assign)
    configuration,  \* project.configuration
    delPending,     \* del(temp.sfo) issued and not yet performed
    nc,             \* the netcat client of the current sendCmdAsync
    cmds,           \* commands received by the device's command port
    ftp,            \* the basic-ftp client: [state, host, port, cwd]
    remote,         \* files uploaded to the device: [dir, entry]
    log             \* the operations performed so far: [op, arg, ok]

vars == <<task, cfgFile, fsys, osTmp, outDir, tempDir, pc, taskState, error,
          defaultsConfig, configuration, delPending, nc, cmds, ftp, remote, log>>

----------------------------------------------------------------------------
(* JavaScript objects and optional values *)

EmptyObj == [k \in {} |-> k]

the(o) == CHOOSE v \in o : TRUE

\* the object {k: v} when o = {v}, the empty object when o is undefined
Field(k, o) == IF o = {} THEN EmptyObj ELSE [kk \in {k} |-> the(o)]

\* obj.k
Get(obj, k) == IF k \in DOMAIN obj THEN {obj[k]} ELSE {}

\* o?.k
OptGet(o, k) == IF o = {} THEN {} ELSE Get(the(o), k)

\* a ?? b
Nullish(a, b) == IF a = {} THEN b ELSE a

\* Object.assign(target, source): the keys of source win
ObjectAssign(target, source) ==
    [k \in DOMAIN target \cup DOMAIN source |->
        IF k \in DOMAIN source THEN source[k] ELSE target[k]]

----------------------------------------------------------------------------
(* Constants of the script *)

idLength == 9

defaultFtpPort == 1337

defaultCmdPort == 1338

netcatFallbackPort == 1338

ebootFileNames ==
    [original |-> "eboot.bin", safe |-> "eboot_safe.bin",
     unsafe |-> "eboot_unsafe.bin", unsafe_sys |-> "eboot_unsafe_sys.bin"]

defaults_config ==
    [id |-> "", title |-> "", type |-> "safe",
     ports |-> [ftp |-> defaultFtpPort, cmd |-> defaultCmdPort],
     systemDir |-> "system", sourceDir |-> "out-src", tempDir |-> ".temp",
     outDir |-> "dist", files |-> <<"*assets/**/*">>]

errors ==
    [projectConfigFileIsMissing |-> "vita-project.json file is missing",
     idDoesNotConformRequirements |-> "'id' is not defined or does not conform",
     titleIsNotAvailable |-> "'title' is not available",
     typeIsNotValid |-> "Type is not valid",
     ebootFileIsMissing |-> "eboot file is missing",
     vitaMksfoexDoesntExists |-> "vita-mksfoex doesn't exists",
     ipIsNotDefined |-> "'ip' is not defined"]

\* values thrown by the libraries and by JSON.parse
SyntaxError == "SyntaxError"

ExternalError == "external error"

----------------------------------------------------------------------------
(* Inputs of a run *)

Tasks == {"default", "build", "test:cmd", "deploy"}

\* connection attempts the command client repeats before the model stops
\* counting them (the client itself retries without limit)
MaxRetries == 1

IdChoices == {{}, {"HELLO"}, {"HELLOWRLD"}, {"HELLOWORLD"}}

TitleChoices == {{}, {""}, {"Hello World"}}

TypeChoices == {{}, {"safe"}, {"unsafe"}, {"unsafe_sys"}, {"bogus"}}

IpChoices == {{}, {""}, {"192.168.1.10"}}

PortsChoices ==
    {{}, {EmptyObj}, {[ftp |-> 2121]}, {[cmd |-> 2323]}, {[ftp |-> 2121, cmd |-> 2323]}}

JsonObjects ==
    { Field("id", i) @@ Field("title", t) @@ Field("type", ty)
        @@ Field("ip", ip) @@ Field("ports", p) :
      i \in IdChoices, t \in TitleChoices, ty \in TypeChoices,
      ip \in IpChoices, p \in PortsChoices }

ConfigFiles ==
    {[exists |-> FALSE, parses |-> FALSE, json |-> EmptyObj],
     [exists |-> TRUE, parses |-> FALSE, json |-> EmptyObj]}
    \cup {[exists |-> TRUE, parses |-> TRUE, json |-> j] : j \in JsonObjects}

AllEboots ==
    {<<"system", "eboot_safe.bin">>, <<"system", "eboot_unsafe.bin">>,
     <<"system", "eboot_unsafe_sys.bin">>}

ProjectTrees ==
    { {<<"system", "sce_sys", "icon0.png">>, <<"assets", "100x100.png">>},
      {<<"system", "eboot_safe.bin">>, <<"assets", "100x100.png">>},
      AllEboots \cup {<<"system", "sce_sys", "icon0.png">>,
                      <<"system", "sce_sys", "livearea", "template.xml">>,
                      <<"assets", "100x100.png">>} }

\* an archive left in outDir by an earlier run under another title
OldArchive == [name |-> "Old Title.vpk", entries |-> {}]

\* a file left in tempDir by an earlier deploy that did not clear it
StaleEntry ==
    [path |-> <<"old.lua">>, of |-> <<"out-src", "old.lua">>,
     from |-> "source", quant |-> FALSE]

----------------------------------------------------------------------------
(* Validation: each operator gives the value it throws, {} when it returns *)

\* mutant: only an id that is too short is rejected
validateId_tooShortOnly(id) ==
    IF Len(id) < idLength THEN {errors.idDoesNotConformRequirements} ELSE {}

validateId(id) ==
    IF Len(id) # idLength THEN {errors.idDoesNotConformRequirements} ELSE {}

\* mutant: the empty title is accepted
validateTitle_anyString(title) == {}

validateTitle(title) ==
    IF Len(title) = 0 THEN {errors.titleIsNotAvailable} ELSE {}

\* mutant: any non-empty type is accepted
validateType_nonEmpty(type) ==
    IF Len(type) = 0 THEN {errors.typeIsNotValid} ELSE {}

validateType(type) ==
    IF type # "safe" /\ type # "unsafe" /\ type # "unsafe_sys"
    THEN {errors.typeIsNotValid} ELSE {}

ebootPath(config) == <<config.systemDir, "eboot_" \o config.type \o ".bin">>

\* mutant: the safe loader is looked for, whatever the type
ensureEbootFileExists_safeOnly(config, fs) ==
    IF <<config.systemDir, ebootFileNames.safe>> \notin fs
    THEN {errors.ebootFileIsMissing} ELSE {}

ensureEbootFileExists(config, fs) ==
    IF ebootPath(config) \notin fs THEN {errors.ebootFileIsMissing} ELSE {}

\* the checks validateConfiguration executes, in order, up to the first throw
validateConfiguration(config, fs) ==
    LET rId    == validateId(config.id)
        rTitle == validateTitle(config.title)
        rType  == validateType(config.type)
        rEboot == ensureEbootFileExists(config, fs)
    IN  <<[op |-> "validateId", thrown |-> rId]>>
        \o (IF rId # {} THEN <<>> ELSE
            <<[op |-> "validateTitle", thrown |-> rTitle]>>
            \o (IF rTitle # {} THEN <<>> ELSE
                <<[op |-> "validateType", thrown |-> rType]>>
                \o (IF rType # {} THEN <<>> ELSE
                    <<[op |-> "ensureEbootFileExists", thrown |-> rEboot]>>)))

----------------------------------------------------------------------------
(* Settling *)

\* a throw that reaches the task's async function: its promise rejects
Throw(e) ==
    /\ pc' = "failed"
    /\ error' = {e}
    /\ taskState' = "rejected"

\* an entry of the log: the operation, its argument, whether it succeeded
EvA(op, arg, ok) == [op |-> op, arg |-> arg, ok |-> ok]

Ev(op, ok) == EvA(op, "", ok)

NoClient == [state |-> "none", addr |-> {}, port |-> {}, cmd |-> "", attempts |-> 0]

NoFtp == [state |-> "none", host |-> {}, port |-> {}, cwd |-> <<>>]

Init ==
    /\ task \in Tasks
    /\ cfgFile \in ConfigFiles
    /\ fsys \in ProjectTrees
    /\ osTmp = {}
    /\ outDir \in {{}, {OldArchive}}
    /\ tempDir \in {{}, {StaleEntry}}
    /\ pc = "start"
    /\ taskState = "pending"
    /\ error = {}
    /\ defaultsConfig = defaults_config
    /\ configuration = EmptyObj
    /\ delPending = FALSE
    /\ nc = NoClient
    /\ cmds = <<>>
    /\ ftp = NoFtp
    /\ remote = {}
    /\ log = <<>>

----------------------------------------------------------------------------
(* new VitaProject() *)

\* mutant: del is called after execSync inside the try block, not in finally
ensureVitaMksfoexExists_noFinally ==
    /\ pc = "start"
    /\ \E ok, wrote \in BOOLEAN :
        /\ ok => wrote
        /\ log' = Append(log, Ev("vita-mksfoex probe", ok))
        /\ osTmp' = IF wrote THEN osTmp \cup {"temp.sfo"} ELSE osTmp
        /\ delPending' = ok
        /\ IF ok
           THEN pc' = "readConfiguration" /\ UNCHANGED <<error, taskState>>
           ELSE Throw(errors.vitaMksfoexDoesntExists)
    /\ UNCHANGED <<task, cfgFile, fsys, outDir, tempDir, defaultsConfig,
                   configuration, nc, cmds, ftp, remote>>

\* execSync(vita-mksfoex ... temp.sfo): a successful invocation has written
\* temp.sfo, a failed one may have written it before it failed; del is
\* called in the finally block and not awaited
ensureVitaMksfoexExists ==
    /\ pc = "start"
    /\ \E ok, wrote \in BOOLEAN :
        /\ ok => wrote
        /\ log' = Append(log, Ev("vita-mksfoex probe", ok))
        /\ osTmp' = IF wrote THEN osTmp \cup {"temp.sfo"} ELSE osTmp
        /\ delPending' = TRUE
        /\ IF ok
           THEN pc' = "readConfiguration" /\ UNCHANGED <<error, taskState>>
           ELSE Throw(errors.vitaMksfoexDoesntExists)
    /\ UNCHANGED <<task, cfgFile, fsys, outDir, tempDir, defaultsConfig,
                   configuration, nc, cmds, ftp, remote>>

readConfiguration ==
    /\ pc = "readConfiguration"
    /\ IF ~cfgFile.exists
       THEN /\ Throw(errors.projectConfigFileIsMissing)
            /\ UNCHANGED <<defaultsConfig, configuration>>
       ELSE IF ~cfgFile.parses
       THEN /\ Throw(SyntaxError)
            /\ UNCHANGED <<defaultsConfig, configuration>>
       ELSE /\ defaultsConfig' = ObjectAssign(defaultsConfig, cfgFile.json)
            /\ configuration' = defaultsConfig'
            /\ pc' = "validateConfiguration"
            /\ UNCHANGED <<error, taskState>>
    /\ log' = Append(log, Ev("readConfiguration", cfgFile.exists /\ cfgFile.parses))
    /\ UNCHANGED <<task, cfgFile, fsys, osTmp, outDir, tempDir, delPending,
                   nc, cmds, ftp, remote>>

validateConfigurationStep ==
    /\ pc = "validateConfiguration"
    /\ LET checks == validateConfiguration(configuration, fsys)
           last   == checks[Len(checks)]
       IN  /\ log' = log \o [i \in 1..Len(checks) |->
                                Ev(checks[i].op, checks[i].thrown = {})]
           /\ IF last.thrown = {}
              THEN pc' = "task" /\ UNCHANGED <<error, taskState>>
              ELSE Throw(the(last.thrown))
    /\ UNCHANGED <<task, cfgFile, fsys, osTmp, outDir, tempDir, defaultsConfig,
                   configuration, delPending, nc, cmds, ftp, remote>>

----------------------------------------------------------------------------
(* File sets of the asset pipeline.  An entry is a vinyl file: its path    *)
(* relative to the glob base, the file it was read from, the stream that   *)
(* produced it, and whether pngquant rewrote it.                           *)

Entry(path, of, from) == [path |-> path, of |-> of, from |-> from, quant |-> FALSE]

EndsWith(s, suffix) ==
    /\ Len(s) >= Len(suffix)
    /\ SubSeq(s, Len(s) - Len(suffix) + 1, Len(s)) = suffix

\* the files below directory dir, at any depth
Below(dir, fs) == {p \in fs : Len(p) > 1 /\ p[1] = dir}

\* gulp.src(pattern): the matched files, each with its path relative to the
\* glob's base (the part of the pattern before its first wildcard)
glob(pattern, fs) ==
    CASE pattern = "*assets/**/*" ->
            {Entry(p, p, "additional") :
                p \in {q \in fs : Len(q) > 1 /\ EndsWith(q[1], "assets")}}
      [] pattern = "extra/*" ->
            {Entry(Tail(p), p, "additional") :
                p \in {q \in fs : Len(q) = 2 /\ q[1] = "extra"}}
      [] OTHER -> {}

sourceFiles(config, fs) ==
    {Entry(Tail(p), p, "source") : p \in Below(config.sourceDir, fs)}

additionalFiles(config, fs) ==
    UNION {glob(config.files[i], fs) : i \in DOMAIN config.files}

\* mutant: eboot_unsafe_sys.bin is not excluded
systemFiles_twoVariants(config, fs) ==
    {Entry(Tail(p), p, "system") :
        p \in Below(config.systemDir, fs)
              \ {<<config.systemDir, ebootFileNames.safe>>,
                 <<config.systemDir, ebootFileNames.unsafe>>}}

systemFiles(config, fs) ==
    {Entry(Tail(p), p, "system") :
        p \in Below(config.systemDir, fs)
              \ {<<config.systemDir, ebootFileNames.safe>>,
                 <<config.systemDir, ebootFileNames.unsafe>>,
                 <<config.systemDir, ebootFileNames.unsafe_sys>>}}

\* mutant: only png files are selected
isImage_pngOnly(e) == EndsWith(e.path[Len(e.path)], ".png")

\* filter(["**/*.{bmp,png,jpg}"]) on the relative path
isImage(e) ==
    LET name == e.path[Len(e.path)]
    IN  EndsWith(name, ".bmp") \/ EndsWith(name, ".png") \/ EndsWith(name, ".jpg")

pngquant(e) == [e EXCEPT !.quant = TRUE]

processedFiles(config, fs) ==
    LET merged == systemFiles(config, fs) \cup additionalFiles(config, fs)
    IN  {pngquant(e) : e \in {x \in merged : isImage(x)}}
        \cup {x \in merged : ~isImage(x)}

ebootFile(config, fs) ==
    {Entry(<<ebootFileNames.original>>, p, "eboot") : p \in {ebootPath(config)} \cap fs}

generatedSfoFile(config) ==
    {Entry(<<"sce_sys", "param.sfo">>, <<"tmp", "param.sfo">>, "sfo")}

projectFiles(config, fs) ==
    generatedSfoFile(config) \cup ebootFile(config, fs)
    \cup sourceFiles(config, fs) \cup processedFiles(config, fs)

\* gulp.dest: one file per path; of several entries at one path, the last
\* one written stays, and the order of the merged streams is not fixed
Written(entries) ==
    {S \in SUBSET entries :
        /\ \A e \in entries : \E w \in S : w.path = e.path
        /\ \A v, w \in S : v.path = w.path => v = w}

Overwrite(dir, written) ==
    {e \in dir : \A w \in written : w.path # e.path} \cup written

----------------------------------------------------------------------------
(* The command channel *)

validateIp(ip) ==
    IF ip # {} /\ the(ip) # "" THEN {errors.ipIsNotDefined} ELSE {}

generateNetcatClientThrows(config) ==
    IF Get(config, "ip") = {} THEN {errors.ipIsNotDefined} ELSE {}

cmdPort(config, dflt) ==
    Nullish(OptGet(Get(config, "ports"), "cmd"),
            Nullish(OptGet(Get(dflt, "ports"), "cmd"), {netcatFallbackPort}))

ftpPort(config, dflt) ==
    Nullish(OptGet(Get(config, "ports"), "ftp"),
            Nullish(OptGet(Get(dflt, "ports"), "ftp"), Get(dflt.ports, "ftp")))

ftpHost(config) == Nullish(Get(config, "ip"), {"localhost"})

\* the synchronous part of sendCmdAsync(config, cmd), the promise executor,
\* called after the operations `before`; the task goes on at `at` when the
\* promise resolves
sendCmdAsync(cmd, at, before) ==
    IF generateNetcatClientThrows(configuration) # {}
    THEN /\ Throw(the(generateNetcatClientThrows(configuration)))
         /\ log' = log \o before \o <<Ev("generateNetcatClient", FALSE)>>
         /\ UNCHANGED nc
    ELSE /\ nc' = [state |-> "connecting", addr |-> Get(configuration, "ip"),
                   port |-> cmdPort(configuration, defaultsConfig), cmd |-> cmd,
                   attempts |-> 1]
         /\ log' = log \o before \o <<Ev("generateNetcatClient", TRUE)>>
         /\ pc' = at
         /\ UNCHANGED <<error, taskState>>

\* retry(5000): a connection attempt that failed is made again
ncRetry ==
    /\ nc.state = "connecting"
    /\ nc.attempts <= MaxRetries
    /\ nc' = [nc EXCEPT !.attempts = @ + 1]
    /\ log' = Append(log, EvA("nc.retry", nc.cmd, TRUE))
    /\ UNCHANGED <<task, cfgFile, fsys, osTmp, outDir, tempDir, pc, taskState,
                   error, defaultsConfig, configuration, delPending, cmds, ftp,
                   remote>>

\* mutant: the promise resolves in the send callback, before the connection
\* is closed
ncSend_resolvesOnSend ==
    /\ nc.state = "connecting"
    /\ pc \in {"cmd launch", "cmd destroy"}
    /\ \E ok \in BOOLEAN :
        /\ log' = Append(log, EvA("nc.send", nc.cmd, ok))
        /\ IF ok
           THEN /\ nc' = [nc EXCEPT !.state = "sent"]
                /\ cmds' = Append(cmds, [line |-> nc.cmd \o "\n", addr |-> nc.addr,
                                         port |-> nc.port])
                /\ pc' = IF task = "test:cmd" /\ pc = "cmd launch"
                         THEN "sleep" ELSE pc
                /\ UNCHANGED <<error, taskState>>
           ELSE /\ nc' = [nc EXCEPT !.state = "error"]
                /\ Throw(ExternalError)
                /\ UNCHANGED cmds
    /\ UNCHANGED <<task, cfgFile, fsys, osTmp, outDir, tempDir, defaultsConfig,
                   configuration, delPending, ftp, remote>>

\* the connection is made and cmd + "\n" is written, or the client emits error
ncSend ==
    /\ nc.state = "connecting"
    /\ pc \in {"cmd launch", "cmd destroy"}
    /\ \E ok \in BOOLEAN :
        /\ log' = Append(log, EvA("nc.send", nc.cmd, ok))
        /\ IF ok
           THEN /\ nc' = [nc EXCEPT !.state = "sent"]
                /\ cmds' = Append(cmds, [line |-> nc.cmd \o "\n", addr |-> nc.addr,
                                         port |-> nc.port])
                /\ UNCHANGED <<pc, error, taskState>>
           ELSE /\ nc' = [nc EXCEPT !.state = "error"]
                /\ Throw(ExternalError)
                /\ UNCHANGED cmds
    /\ UNCHANGED <<task, cfgFile, fsys, osTmp, outDir, tempDir, defaultsConfig,
                   configuration, delPending, ftp, remote>>

\* the close callback resolves the promise; the awaiting task continues
ncClose ==
    /\ nc.state = "sent"
    /\ nc' = [nc EXCEPT !.state = "closed"]
    /\ log' = Append(log, Ev("nc.close", TRUE))
    /\ IF task = "test:cmd"
       THEN /\ IF pc = "cmd launch"
               THEN pc' = "sleep" /\ UNCHANGED taskState
               ELSE pc' = "done" /\ taskState' = "resolved"
            /\ UNCHANGED ftp
       ELSE /\ ftp' = [state |-> "connecting", host |-> ftpHost(configuration),
                       port |-> ftpPort(configuration, defaultsConfig), cwd |-> <<>>]
            /\ pc' = "ftp.access"
            /\ UNCHANGED taskState
    /\ UNCHANGED <<task, cfgFile, fsys, osTmp, outDir, tempDir, error,
                   defaultsConfig, configuration, delPending, cmds, remote>>

----------------------------------------------------------------------------
(* gulp.task("test:cmd") *)

testCmdLaunch ==
    /\ pc = "task" /\ task = "test:cmd"
    /\ sendCmdAsync("launch " \o configuration.id, "cmd launch", <<>>)
    /\ UNCHANGED <<task, cfgFile, fsys, osTmp, outDir, tempDir, defaultsConfig,
                   configuration, delPending, cmds, ftp, remote>>

\* sleepAsync(2000) has resolved
testCmdDestroy ==
    /\ pc = "sleep"
    /\ sendCmdAsync("destroy", "cmd destroy", <<>>)
    /\ UNCHANGED <<task, cfgFile, fsys, osTmp, outDir, tempDir, defaultsConfig,
                   configuration, delPending, cmds, ftp, remote>>

----------------------------------------------------------------------------
(* build(config) and the first, synchronous part of deployAsync(config) *)

validateIpStep ==
    /\ pc = "task" /\ task = "deploy"
    /\ LET thrown == validateIp(Get(configuration, "ip"))
       IN  /\ log' = Append(log, Ev("validateIp", thrown = {}))
           /\ IF thrown = {}
              THEN pc' = "compile" /\ UNCHANGED <<error, taskState>>
              ELSE Throw(the(thrown))
    /\ UNCHANGED <<task, cfgFile, fsys, osTmp, outDir, tempDir, defaultsConfig,
                   configuration, delPending, nc, cmds, ftp, remote>>

\* execSync("npx tstl") writes the compiled tree into sourceDir
compileSourceFiles ==
    /\ \/ pc = "task" /\ task \in {"default", "build"}
       \/ pc = "compile"
    /\ \E ok \in BOOLEAN :
        /\ log' = Append(log, Ev("compileSourceFiles", ok))
        /\ IF ok
           THEN /\ fsys' = fsys \cup {<<configuration.sourceDir, "index.lua">>}
                /\ pc' = "projectFiles"
                /\ UNCHANGED <<error, taskState>>
           ELSE /\ Throw(ExternalError)
                /\ UNCHANGED fsys
    /\ UNCHANGED <<task, cfgFile, osTmp, outDir, tempDir, defaultsConfig,
                   configuration, delPending, nc, cmds, ftp, remote>>

\* projectFiles(config): generateSfoFile runs vita-mksfoex, then the streams
\* are opened and piped; build returns (the task's async function completes),
\* deployAsync awaits the end of the stream into tempDir
projectFilesStep ==
    /\ pc = "projectFiles"
    /\ \E ok \in BOOLEAN :
        /\ log' = Append(log, Ev("generateSfoFile", ok))
        /\ IF ok
           THEN /\ osTmp' = osTmp \cup {"param.sfo"}
                /\ IF task = "deploy"
                   THEN pc' = "staging" /\ UNCHANGED taskState
                   ELSE pc' = "zipping" /\ taskState' = "resolved"
                /\ UNCHANGED error
           ELSE /\ Throw(ExternalError)
                /\ UNCHANGED osTmp
    /\ UNCHANGED <<task, cfgFile, fsys, outDir, tempDir, defaultsConfig,
                   configuration, delPending, nc, cmds, ftp, remote>>

\* the zip stream ends and gulp.dest(outDir) writes <title>.vpk, or a stream
\* emits error after the task has completed
zipDest ==
    /\ pc = "zipping"
    /\ \E ok \in BOOLEAN :
        /\ log' = Append(log, Ev("zip dest", ok))
        /\ IF ok
           THEN /\ outDir' = {a \in outDir : a.name # configuration.title \o ".vpk"}
                             \cup {[name |-> configuration.title \o ".vpk",
                                    entries |-> projectFiles(configuration, fsys)]}
                /\ pc' = "done"
                /\ UNCHANGED error
           ELSE /\ pc' = "crashed"
                /\ error' = {ExternalError}
                /\ UNCHANGED outDir
    /\ UNCHANGED <<task, cfgFile, fsys, osTmp, tempDir, taskState, defaultsConfig,
                   configuration, delPending, nc, cmds, ftp, remote>>

----------------------------------------------------------------------------
(* deployAsync(config), after its first await *)

\* the files of the current run's pipeline that gulp.dest has written
Staged(config, fs, dir) == dir \cap projectFiles(config, fs)

\* the stream into tempDir has written a file at every path of the pipeline
StagingEnded(config, fs, dir) ==
    \A e \in projectFiles(config, fs) :
        \E t \in Staged(config, fs, dir) : t.path = e.path

\* gulp.dest(tempDir) writes one file of the merged stream (of several files
\* at one path any may be the one that stays), or emits error: toPromise
\* rejects and deployAsync throws
stageWrite ==
    /\ pc = "staging"
    /\ \E e \in projectFiles(configuration, fsys) :
        /\ \A t \in Staged(configuration, fsys, tempDir) : t.path # e.path
        /\ \E ok \in BOOLEAN :
            IF ok
            THEN /\ tempDir' = Overwrite(tempDir, {e})
                 /\ UNCHANGED <<pc, error, taskState, log>>
            ELSE /\ Throw(ExternalError)
                 /\ log' = Append(log, Ev("stage dest", FALSE))
                 /\ UNCHANGED tempDir
    /\ UNCHANGED <<task, cfgFile, fsys, osTmp, outDir, defaultsConfig,
                   configuration, delPending, nc, cmds, ftp, remote>>

\* mutant: the stream into tempDir is not awaited
stageDest_notAwaited ==
    /\ pc = "staging"
    /\ sendCmdAsync("destroy", "cmd destroy", <<Ev("stage dest", TRUE)>>)
    /\ UNCHANGED <<task, cfgFile, fsys, osTmp, outDir, tempDir, defaultsConfig,
                   configuration, delPending, cmds, ftp, remote>>

\* the stream emits end: toPromise(projectFiles(config).pipe(gulp.dest(tempDir)))
\* resolves and deployAsync goes on to sendCmdAsync(config, "destroy")
stageDest ==
    /\ pc = "staging"
    /\ StagingEnded(configuration, fsys, tempDir)
    /\ sendCmdAsync("destroy", "cmd destroy", <<Ev("stage dest", TRUE)>>)
    /\ UNCHANGED <<task, cfgFile, fsys, osTmp, outDir, tempDir, defaultsConfig,
                   configuration, delPending, cmds, ftp, remote>>

ftpAccess ==
    /\ pc = "ftp.access"
    /\ \E ok \in BOOLEAN :
        /\ log' = Append(log, Ev("ftp.access", ok))
        /\ IF ok
           THEN /\ ftp' = [ftp EXCEPT !.state = "open"]
                /\ pc' = "ftp.list"
                /\ UNCHANGED <<error, taskState>>
           ELSE /\ Throw(ExternalError)
                /\ UNCHANGED ftp
    /\ UNCHANGED <<task, cfgFile, fsys, osTmp, outDir, tempDir, defaultsConfig,
                   configuration, delPending, nc, cmds, remote>>

ftpList ==
    /\ pc = "ftp.list"
    /\ \E ok \in BOOLEAN :
        /\ log' = Append(log, Ev("ftp.list", ok))
        /\ IF ok
           THEN pc' = "ftp.cd ux0:" /\ UNCHANGED <<error, taskState>>
           ELSE Throw(ExternalError)
    /\ UNCHANGED <<task, cfgFile, fsys, osTmp, outDir, tempDir, defaultsConfig,
                   configuration, delPending, nc, cmds, ftp, remote>>

\* ftp.cd("ux0:"), ftp.cd("app"), ftp.cd(config.id)
ftpCd ==
    /\ pc \in {"ftp.cd ux0:", "ftp.cd app", "ftp.cd id"}
    /\ LET dir == CASE pc = "ftp.cd ux0:" -> "ux0:"
                    [] pc = "ftp.cd app" -> "app"
                    [] OTHER -> configuration.id
       IN  \E ok \in BOOLEAN :
            /\ log' = Append(log, EvA("ftp.cd", dir, ok))
            /\ IF ok
               THEN /\ ftp' = [ftp EXCEPT !.cwd = Append(@, dir)]
                    /\ pc' = CASE pc = "ftp.cd ux0:" -> "ftp.cd app"
                               [] pc = "ftp.cd app" -> "ftp.cd id"
                               [] OTHER -> "ftp.uploadFromDir"
                    /\ UNCHANGED <<error, taskState>>
               ELSE /\ Throw(ExternalError)
                    /\ UNCHANGED ftp
    /\ UNCHANGED <<task, cfgFile, fsys, osTmp, outDir, tempDir, defaultsConfig,
                   configuration, delPending, nc, cmds, remote>>

\* mutant: a failed upload is caught and the temp directory is cleared all
\* the same
ftpUploadFromDir_clearsOnFailure ==
    /\ pc = "ftp.uploadFromDir"
    /\ \E ok \in BOOLEAN :
        /\ remote' = IF ok THEN remote \cup {[dir |-> ftp.cwd, entry |-> e] : e \in tempDir}
                     ELSE remote
        /\ ftp' = [ftp EXCEPT !.state = "closed"]
        /\ log' = log \o <<Ev("ftp.uploadFromDir", ok), Ev("ftp.close", TRUE)>>
        /\ pc' = "clearTemp"
        /\ UNCHANGED <<error, taskState>>
    /\ UNCHANGED <<task, cfgFile, fsys, osTmp, outDir, tempDir, defaultsConfig,
                   configuration, delPending, nc, cmds>>

\* ftp.uploadFromDir(tempDir) settles; on success deployAsync closes the
\* connection and calls clearTempDirectoryAsync
ftpUploadFromDir ==
    /\ pc = "ftp.uploadFromDir"
    /\ \E ok \in BOOLEAN :
        IF ok
        THEN /\ remote' = {r \in remote : \A e \in tempDir :
                                ~(r.dir = ftp.cwd /\ r.entry.path = e.path)}
                          \cup {[dir |-> ftp.cwd, entry |-> e] : e \in tempDir}
             /\ ftp' = [ftp EXCEPT !.state = "closed"]
             /\ log' = log \o <<Ev("ftp.uploadFromDir", TRUE), Ev("ftp.close", TRUE)>>
             /\ pc' = "clearTemp"
             /\ UNCHANGED <<error, taskState>>
        ELSE /\ Throw(ExternalError)
             /\ log' = Append(log, Ev("ftp.uploadFromDir", FALSE))
             /\ UNCHANGED <<remote, ftp>>
    /\ UNCHANGED <<task, cfgFile, fsys, osTmp, outDir, tempDir, defaultsConfig,
                   configuration, delPending, nc, cmds>>

\* del(config.tempDir) settles
clearTempDirectoryAsync ==
    /\ pc = "clearTemp"
    /\ \E ok \in BOOLEAN :
        /\ log' = Append(log, Ev("del tempDir", ok))
        /\ IF ok
           THEN /\ tempDir' = {}
                /\ pc' = "done"
                /\ taskState' = "resolved"
                /\ UNCHANGED error
           ELSE /\ Throw(ExternalError)
                /\ UNCHANGED tempDir
    /\ UNCHANGED <<task, cfgFile, fsys, osTmp, outDir, defaultsConfig,
                   configuration, delPending, nc, cmds, ftp, remote>>

----------------------------------------------------------------------------
(* del(tempSfoPath, { force: true }) of ensureVitaMksfoexExists is not      *)
(* awaited: it is performed once the synchronous code has returned to the  *)
(* event loop                                                              *)

Synchronous ==
    pc \in {"start", "readConfiguration", "validateConfiguration", "task",
            "compile", "projectFiles"}

delTempSfo ==
    /\ delPending
    /\ ~Synchronous
    /\ delPending' = FALSE
    /\ osTmp' = osTmp \ {"temp.sfo"}
    /\ UNCHANGED <<task, cfgFile, fsys, outDir, tempDir, pc, taskState, error,
                   defaultsConfig, configuration, nc, cmds, ftp, remote, log>>

Next ==
    \/ ensureVitaMksfoexExists
    \/ readConfiguration
    \/ validateConfigurationStep
    \/ testCmdLaunch
    \/ testCmdDestroy
    \/ ncRetry
    \/ ncSend
    \/ ncClose
    \/ validateIpStep
    \/ compileSourceFiles
    \/ projectFilesStep
    \/ zipDest
    \/ stageWrite
    \/ stageDest
    \/ ftpAccess
    \/ ftpList
    \/ ftpCd
    \/ ftpUploadFromDir
    \/ clearTempDirectoryAsync
    \/ delTempSfo

Spec == Init /\ [][Next]_vars

----------------------------------------------------------------------------
(* What the log and the configuration file say *)

Idx == 1..Len(log)

Did(op) == \E i \in Idx : log[i].op = op

DidOk(op) == \E i \in Idx : log[i].op = op /\ log[i].ok

FileParsed == cfgFile.exists /\ cfgFile.parses

FileId == Get(cfgFile.json, "id")

FileTitle == Get(cfgFile.json, "title")

FileType == Get(cfgFile.json, "type")

FileIp == Get(cfgFile.json, "ip")

FilePorts == Get(cfgFile.json, "ports")

IdValid == FileParsed /\ FileId # {} /\ Len(the(FileId)) = 9

TitleValid == FileParsed /\ FileTitle # {} /\ the(FileTitle) # ""

\* the type the run uses: the file's, "safe" when the file gives none
TypeUsed == IF FileType = {} THEN "safe" ELSE the(FileType)

TypeValid == FileParsed /\ TypeUsed \in {"safe", "unsafe", "unsafe_sys"}

LoaderPresent == <<"system", "eboot_" \o TypeUsed \o ".bin">> \in fsys

Settled == pc \in {"done", "failed", "crashed"}

\* operations of the environment: processes, streams, sockets, deletions
ExternalOps ==
    {"vita-mksfoex probe", "compileSourceFiles", "generateSfoFile", "zip dest",
     "stage dest", "nc.send", "nc.close", "ftp.access", "ftp.list", "ftp.cd",
     "ftp.uploadFromDir", "ftp.close", "del tempDir"}

NoExternalFailure == \A i \in Idx : log[i].op \in ExternalOps => log[i].ok

\* the project directories are as the run found them
ProjectUntouched ==
    /\ fsys \in ProjectTrees
    /\ outDir \in {{}, {OldArchive}}
    /\ tempDir \in {{}, {StaleEntry}}

----------------------------------------------------------------------------
(* C1: in the tasks default, build, test:cmd and deploy, every destructive  *)
(* operation (clearing a directory, running the compiler, writing staged   *)
(* files or the archive, sending a command, opening the FTP connection)    *)
(* comes after the four checks id, title, type and loader presence have    *)
(* passed in this run, and the configuration does satisfy them.            *)

DestructiveOps ==
    {"compileSourceFiles", "stage dest", "zip dest", "nc.send", "ftp.access",
     "del tempDir"}

ChecksPassedBefore(i) ==
    \E a \in Idx :
        /\ a + 3 < i
        /\ log[a] = Ev("validateId", TRUE)
        /\ log[a + 1] = Ev("validateTitle", TRUE)
        /\ log[a + 2] = Ev("validateType", TRUE)
        /\ log[a + 3] = Ev("ensureEbootFileExists", TRUE)

ConfigurationIsValid == IdValid /\ TitleValid /\ TypeValid /\ LoaderPresent

C1_ValidationBeforeDestructive ==
    /\ \A i \in Idx :
          log[i].op \in DestructiveOps =>
              ChecksPassedBefore(i) /\ ConfigurationIsValid
    /\ (nc.state # "none" \/ ftp.state # "none" \/ cmds # <<>> \/ remote # {}
        \/ ~ProjectUntouched)
          => ChecksPassedBefore(Len(log) + 1) /\ ConfigurationIsValid

C1_Witness ==
    /\ task = "deploy" /\ pc = "done"
    /\ DidOk("compileSourceFiles") /\ DidOk("stage dest") /\ DidOk("nc.send")
    /\ DidOk("ftp.access") /\ DidOk("del tempDir")

----------------------------------------------------------------------------
(* C2: a deploy run whose configuration has no ip fails at once with the    *)
(* 'ip' is not defined error: once deployAsync has started, the run has     *)
(* failed with that error, the compiler was not run, nothing was staged and *)
(* neither the command channel nor the FTP channel was opened.              *)

C2_DeployWithoutIpFailsAtOnce ==
    (task = "deploy" /\ FileParsed /\ FileIp = {} /\ Did("validateIp")) =>
        /\ pc = "failed" /\ error = {errors.ipIsNotDefined}
        /\ ~Did("compileSourceFiles")
        /\ ~Did("stage dest")
        /\ nc.state = "none" /\ ftp.state = "none"

----------------------------------------------------------------------------
(* C3: a deploy run with a valid configuration that defines an ip, in which *)
(* no operation of the environment failed, ends having uploaded the staged  *)
(* tree into ux0:/app/<id> and cleared tempDir.                             *)

AppDir == <<"ux0:", "app", configuration.id>>

UploadedStagedTree ==
    /\ DidOk("ftp.uploadFromDir")
    /\ \A e \in projectFiles(configuration, fsys) :
          \E r \in remote : r.dir = AppDir /\ r.entry.path = e.path

C3_DeployWithIpUploads ==
    (task = "deploy" /\ ConfigurationIsValid /\ FileIp # {} /\ the(FileIp) # ""
        /\ NoExternalFailure /\ Settled) =>
        /\ pc = "done"
        /\ UploadedStagedTree
        /\ tempDir = {}

----------------------------------------------------------------------------
(* C4: a build run clears outDir after validation and before the archive   *)
(* is written, so that after the run outDir holds only this run's archive. *)

C4_BuildLeavesOnlyItsArchive ==
    (task \in {"build", "default"} /\ pc = "done") =>
        \A a \in outDir : a.name = configuration.title \o ".vpk"

----------------------------------------------------------------------------
(* C5 as claimed: with an id that is missing or not 9 characters long the   *)
(* run fails with the id-invalid error, and up to that failure no file was  *)
(* written or deleted and no external process was executed.                 *)

IdInvalid == FileParsed /\ (FileId = {} \/ Len(the(FileId)) # 9)

----------------------------------------------------------------------------
(* C6: with valid id, title and type and no eboot_<type>.bin in systemDir,  *)
(* the validation of a build run throws the loader-missing error, the run   *)
(* never completes and <title>.vpk is never written.                        *)

LoaderMissing == IdValid /\ TitleValid /\ TypeValid /\ ~LoaderPresent

C6_LoaderMissingNoArchive ==
    (task \in {"build", "default"} /\ LoaderMissing) =>
        /\ Did("validateId") =>
              pc = "failed" /\ error = {errors.ebootFileIsMissing}
        /\ pc \notin {"task", "projectFiles", "zipping", "done"}
        /\ ~Did("zip dest")
        /\ outDir \in {{}, {OldArchive}}

C6_Witness ==
    /\ task = "build" /\ LoaderMissing
    /\ pc = "failed" /\ error = {errors.ebootFileIsMissing}

----------------------------------------------------------------------------
(* C7: with an id of length 9, a non-empty title and a type that is given   *)
(* and is none of safe, unsafe, unsafe_sys, validation throws the           *)
(* type-invalid error; the loader check, the compiler and the packaging     *)
(* steps are never reached.                                                 *)

TypeInvalid == IdValid /\ TitleValid /\ FileType # {} /\ ~TypeValid

C7_TypeInvalidStopsValidation ==
    TypeInvalid =>
        /\ Did("validateId") =>
              pc = "failed" /\ error = {errors.typeIsNotValid}
        /\ ~Did("ensureEbootFileExists")
        /\ ~Did("compileSourceFiles")
        /\ ~Did("generateSfoFile") /\ ~Did("zip dest") /\ ~Did("stage dest")

C7_Witness ==
    /\ TypeInvalid
    /\ pc = "failed" /\ error = {errors.typeIsNotValid}
    /\ log[Len(log)] = Ev("validateType", FALSE)

----------------------------------------------------------------------------
(* C8: the FTP connection uses ports.ftp of the file when it gives one and  *)
(* 1337 otherwise; the command channel uses ports.cmd of the file when it   *)
(* gives one and 1338 otherwise, also when the file's ports object has only *)
(* one of the two keys.                                                     *)

ExpectedFtpPort ==
    IF FilePorts # {} /\ "ftp" \in DOMAIN the(FilePorts)
    THEN {the(FilePorts).ftp} ELSE {1337}

ExpectedCmdPort ==
    IF FilePorts # {} /\ "cmd" \in DOMAIN the(FilePorts)
    THEN {the(FilePorts).cmd} ELSE {1338}

C8_PortsDefault ==
    /\ ftp.state # "none" => ftp.port = ExpectedFtpPort
    /\ nc.state # "none" => nc.port = ExpectedCmdPort

----------------------------------------------------------------------------
(* The asset pipeline as a function of its inputs: the archive of a build   *)
(* for every type, every content of the project directories and the files  *)
(* globs, with the loader of the type present.                              *)

FileUniverse ==
    AllEboots \cup
    {<<"system", "eboot.bin">>, <<"system", "sub", "eboot_safe.bin">>,
     <<"system", "sce_sys", "icon0.png">>, <<"out-src", "eboot.bin">>,
     <<"assets", "100x100.png">>, <<"extra", "eboot.bin">>,
     <<"system", "sce_sys", "pic0.jpg">>, <<"assets", "bg.bmp">>,
     <<"assets", "readme.png.txt">>, <<"out-src", "logo.png">>}

FilesChoices == {{}, {<<"extra/*">>}, {<<"*assets/**/*", "extra/*">>}}

InitFiles ==
    /\ task \in {"build", "default"}
    /\ \E ty \in {"safe", "unsafe", "unsafe_sys"}, fl \in FilesChoices :
          cfgFile = [exists |-> TRUE, parses |-> TRUE,
                     json |-> [id |-> "HELLOWRLD", title |-> "Hello World",
                               type |-> ty] @@ Field("files", fl)]
    /\ configuration = ObjectAssign(defaults_config, cfgFile.json)
    /\ defaultsConfig = configuration
    /\ fsys \in {t \cup {<<"out-src", "index.lua">>} : t \in SUBSET FileUniverse}
    /\ ebootPath(configuration) \in fsys
    /\ osTmp = {"param.sfo"}
    /\ outDir = {}
    /\ tempDir = {}
    /\ pc = "zipping"
    /\ taskState = "resolved"
    /\ error = {}
    /\ delPending = FALSE
    /\ nc = NoClient
    /\ cmds = <<>>
    /\ ftp = NoFtp
    /\ remote = {}
    /\ log = <<>>

NextFiles == zipDest

SpecFiles == InitFiles /\ [][NextFiles]_vars

Archive == {a \in outDir : a.name = configuration.title \o ".vpk"}

EbootVariantNames ==
    {ebootFileNames.safe, ebootFileNames.unsafe, ebootFileNames.unsafe_sys}

(* C9 as claimed: for each type and any content of systemDir, sourceDir     *)
(* and the files globs, the entries handed to the archive hold exactly one *)
(* entry at path eboot.bin, it is the content of eboot_<type>.bin, and no  *)
(* file of systemDir named eboot_safe.bin, eboot_unsafe.bin or             *)
(* eboot_unsafe_sys.bin is among them.                                     *)

C9_ExactlyOneEbootBin ==
    \A a \in Archive :
        /\ Cardinality({e \in a.entries : e.path = <<"eboot.bin">>}) = 1
        /\ \A e \in a.entries :
              e.path = <<"eboot.bin">> => e.of = ebootPath(configuration)
        /\ \A e \in a.entries :
              e.of[1] = configuration.systemDir =>
                  e.path[Len(e.path)] \notin EbootVariantNames

(* C9 as amended: the loader contributes exactly one entry at path          *)
(* eboot.bin, the content of eboot_<type>.bin; it is the only entry at     *)
(* that path provided no file eboot.bin lies directly in systemDir, in     *)
(* sourceDir or in the base of a files glob that matches it; and the       *)
(* system file set contributes no entry at the paths eboot_safe.bin,       *)
(* eboot_unsafe.bin, eboot_unsafe_sys.bin (a file of such a name in a      *)
(* sub-directory of systemDir is included under its sub-directory path).   *)

NoOtherEbootBin ==
    /\ <<configuration.systemDir, "eboot.bin">> \notin fsys
    /\ <<configuration.sourceDir, "eboot.bin">> \notin fsys
    /\ \A i \in DOMAIN configuration.files :
          configuration.files[i] = "extra/*" => <<"extra", "eboot.bin">> \notin fsys

C9_OneLoaderEntry ==
    \A a \in Archive :
        /\ {e.of : e \in {x \in a.entries :
                            x.path = <<"eboot.bin">> /\ x.from = "eboot"}}
              = {<<"system", "eboot_" \o TypeUsed \o ".bin">>}
        /\ NoOtherEbootBin =>
              Cardinality({e \in a.entries : e.path = <<"eboot.bin">>}) = 1
        /\ \A e \in a.entries :
              e.from = "system" => e.path \notin {<<n>> : n \in EbootVariantNames}

C9_Witness ==
    /\ TypeUsed = "unsafe_sys"
    /\ AllEboots \subseteq fsys
    /\ NoOtherEbootBin
    /\ \E a \in Archive :
          \E e \in a.entries :
              e.path = <<"eboot.bin">> /\ e.of = <<"system", "eboot_unsafe_sys.bin">>

----------------------------------------------------------------------------
(* C10: a deploy run that succeeded has sent "launch <id>" on the command   *)
(* channel after the upload of the staged tree completed.                   *)

C10_DeployLaunchesAfterUpload ==
    (task = "deploy" /\ pc = "done") =>
        \E i, j \in Idx :
            /\ i < j
            /\ log[i] = Ev("ftp.uploadFromDir", TRUE)
            /\ log[j] = EvA("nc.send", "launch " \o configuration.id, TRUE)

----------------------------------------------------------------------------
(* C11: every call of sendCmdAsync with an ip configured makes its own      *)
(* client for the command port, sends exactly cmd followed by one newline, *)
(* then closes the connection, and the awaiting task goes on only after    *)
(* the close callback has fired; in test:cmd the destroy command is sent   *)
(* only after the connection of the launch command has been closed.        *)

NcOps == {"nc.retry", "nc.send", "nc.close"}

\* project.configuration.id, "" before the configuration is read
ConfiguredId == IF "id" \in DOMAIN configuration THEN configuration.id ELSE ""

\* the commands the task sends, in the order of its sendCmdAsync calls
CommandsOfTask ==
    IF task = "test:cmd" THEN <<"launch " \o ConfiguredId, "destroy">>
    ELSE IF task = "deploy" THEN <<"destroy">>
    ELSE <<>>

\* the call whose client was made at log index i has sent once and closed at k
SentThenClosed(i, k) ==
    /\ log[k] = Ev("nc.close", TRUE)
    /\ \E s \in (i + 1)..(k - 1) :
          /\ log[s].op = "nc.send" /\ log[s].ok
          /\ \A m \in (i + 1)..(k - 1) : m # s => log[m].op = "nc.retry"

C11_SendCmdConnectSendClose ==
    /\ \A i \in Idx : log[i] = Ev("generateNetcatClient", TRUE) =>
          \A j \in Idx : (j > i /\ log[j].op \notin NcOps) =>
              \E k \in (i + 1)..(j - 1) : SentThenClosed(i, k)
    /\ Len(cmds) <= Len(CommandsOfTask)
    /\ \A n \in DOMAIN cmds :
          /\ cmds[n].line = CommandsOfTask[n] \o "\n"
          /\ cmds[n].addr = FileIp
          /\ cmds[n].port = ExpectedCmdPort
    /\ Len(cmds) = Cardinality({i \in Idx : log[i].op = "nc.send" /\ log[i].ok})
    /\ Cardinality({i \in Idx : log[i].op = "nc.close"}) <= Len(cmds)
    /\ (pc \in {"sleep", "ftp.access"} \/ (task = "test:cmd" /\ pc = "done"))
          => nc.state = "closed"
    /\ task = "test:cmd" =>
          \A j \in Idx : (log[j].op = "nc.send" /\ log[j].arg = "destroy") =>
              \E s, k \in 1..(j - 1) :
                  /\ s < k
                  /\ log[s] = EvA("nc.send", "launch " \o ConfiguredId, TRUE)
                  /\ log[k] = Ev("nc.close", TRUE)

C11_Witness ==
    /\ task = "test:cmd" /\ pc = "done"
    /\ FileIp = {"192.168.1.10"}
    /\ Len(cmds) = 2
    /\ cmds[1].line = "launch HELLOWRLD\n" /\ cmds[2].line = "destroy\n"
    /\ Cardinality({i \in Idx : log[i] = Ev("nc.close", TRUE)}) = 2

----------------------------------------------------------------------------
(* C12: the steps of deployAsync run in the order stage into tempDir, send  *)
(* destroy, open FTP and change to ux0:/app/<id>, upload tempDir, close    *)
(* FTP, clear tempDir; a step starts only after the one before it has      *)
(* completed successfully, and after a failed step no later step is        *)
(* performed: a failed destroy leaves the FTP connection unopened, a       *)
(* failed upload leaves tempDir uncleared.                                 *)

\* the steps of deployAsync from the staging on, as the log names them
DeploySteps ==
    <<Ev("stage dest", TRUE), Ev("generateNetcatClient", TRUE),
      EvA("nc.send", "destroy", TRUE), Ev("nc.close", TRUE),
      Ev("ftp.access", TRUE), Ev("ftp.list", TRUE),
      EvA("ftp.cd", "ux0:", TRUE), EvA("ftp.cd", "app", TRUE),
      EvA("ftp.cd", ConfiguredId, TRUE), Ev("ftp.uploadFromDir", TRUE),
      Ev("ftp.close", TRUE), Ev("del tempDir", TRUE)>>

DeployOps ==
    {"stage dest", "generateNetcatClient", "nc.send", "nc.close", "ftp.access",
     "ftp.list", "ftp.cd", "ftp.uploadFromDir", "ftp.close", "del tempDir"}

IsDeployStep(e) == e.op \in DeployOps

\* the steps of deployAsync performed so far (connection retries left out)
DeployLog == SelectSeq(log, IsDeployStep)

C12_DeployStepsInOrder ==
    task = "deploy" =>
        LET done == DeployLog
        IN  /\ Len(done) <= Len(DeploySteps)
            /\ \A n \in DOMAIN done :
                  /\ done[n].op = DeploySteps[n].op
                  /\ done[n].arg = DeploySteps[n].arg
                  /\ n < Len(done) => done[n].ok
            /\ (done # <<>> /\ ~done[Len(done)].ok) => pc = "failed"
            /\ ~DidOk("stage dest") => nc.state = "none" /\ cmds = <<>>
            /\ ~DidOk("nc.close") => ftp.state = "none"
            /\ ftp.state = "open" => ftp.cwd = SubSeq(AppDir, 1, Len(ftp.cwd))
            /\ ~DidOk("ftp.uploadFromDir") => remote = {} /\ ftp.state # "closed"
            /\ (DidOk("stage dest") /\ ~DidOk("ftp.uploadFromDir")) =>
                  \A e \in projectFiles(configuration, fsys) :
                      \E t \in tempDir : t.path = e.path
            /\ remote # {} => \A r \in remote : r.dir = AppDir
            /\ Did("del tempDir") => ftp.state = "closed"

\* the upload failed after the steps before it had succeeded in order
C12_Witness ==
    /\ task = "deploy" /\ pc = "failed"
    /\ Len(DeployLog) = 10
    /\ DeployLog[10] = Ev("ftp.uploadFromDir", FALSE)
    /\ ftp.cwd = AppDir
    /\ tempDir # {} /\ remote = {}

----------------------------------------------------------------------------
(* C13: in deployAsync the destroy command is sent and the upload is        *)
(* started only after every file of the merged pipeline output has been    *)
(* written into tempDir; a write error during staging rejects the wait     *)
(* and aborts the deploy.                                                  *)

AfterStagingOps ==
    {"generateNetcatClient", "nc.retry", "nc.send", "nc.close", "ftp.access",
     "ftp.list", "ftp.cd", "ftp.uploadFromDir", "ftp.close", "del tempDir"}

\* tempDir holds a file for every path of the pipeline output
FullyStaged ==
    \E w \in Written(projectFiles(configuration, fsys)) : w \subseteq tempDir

C13_StagedBeforeDestroyAndUpload ==
    task = "deploy" =>
        /\ \A i \in Idx : log[i].op \in AfterStagingOps =>
              \E s \in 1..(i - 1) : log[s] = Ev("stage dest", TRUE)
        /\ (DidOk("stage dest") /\ ~DidOk("del tempDir")) => FullyStaged
        /\ (nc.state # "none" \/ cmds # <<>> \/ ftp.state # "none")
              => DidOk("stage dest")
        /\ remote # {} =>
              \E w \in Written(projectFiles(configuration, fsys)) :
                  \A e \in w : [dir |-> ftp.cwd, entry |-> e] \in remote
        /\ (\E i \in Idx : log[i] = Ev("stage dest", FALSE)) =>
              /\ log[Len(log)] = Ev("stage dest", FALSE)
              /\ pc = "failed" /\ taskState = "rejected"
              /\ nc.state = "none" /\ cmds = <<>> /\ ftp.state = "none"
              /\ remote = {}

C13_Witness ==
    /\ task = "deploy" /\ pc = "clearTemp"
    /\ cmds # <<>> /\ cmds[1].line = "destroy\n"
    /\ Cardinality(projectFiles(configuration, fsys)) >= 6
    /\ FullyStaged
    /\ Cardinality(remote) >= 6

----------------------------------------------------------------------------
(* C14: the staging directory is fresh in each deploy run: when the upload  *)
(* starts tempDir holds exactly the files produced by the pipeline of this *)
(* run, and no file left in tempDir by an earlier run is uploaded.         *)

C14_TempDirFreshAtUpload ==
    task = "deploy" =>
        /\ pc = "ftp.uploadFromDir" =>
              /\ FullyStaged
              /\ tempDir \subseteq projectFiles(configuration, fsys)
        /\ \A r \in remote : r.entry # StaleEntry

----------------------------------------------------------------------------
(* The run under the scheduling of node: synchronous code runs to its end, *)
(* every operation of the environment that was started settles, and the   *)
(* event loop performs the deletion that del() has queued.                 *)

FairSpec == Spec /\ WF_vars(Next) /\ WF_vars(delTempSfo)

(* C15: the toolchain check removes temp.sfo of the OS temp directory both  *)
(* when vita-mksfoex succeeded and when it failed; when it failed the run  *)
(* aborts with the toolchain-missing error before any directory clearing,  *)
(* compilation or network I/O.                                             *)

ProbeFailed == \E i \in Idx : log[i] = Ev("vita-mksfoex probe", FALSE)

\* the removal has been issued and, once performed, has removed the file
TempSfoRemovalIssued ==
    Did("vita-mksfoex probe") => (delPending \/ "temp.sfo" \notin osTmp)

AbortedAtProbe ==
    ProbeFailed =>
        /\ pc = "failed" /\ taskState = "rejected"
        /\ error = {errors.vitaMksfoexDoesntExists}
        /\ log = <<Ev("vita-mksfoex probe", FALSE)>>
        /\ ProjectUntouched
        /\ configuration = EmptyObj
        /\ nc.state = "none" /\ cmds = <<>> /\ ftp.state = "none" /\ remote = {}

----------------------------------------------------------------------------
(* C16: in projectFiles a file goes through recompression if and only if   *)
(* it comes from the system or the user-declared file set and its          *)
(* extension is bmp, png or jpg; every other file of these two sets, every *)
(* file of the compiled source tree, the metadata file and the loader      *)
(* reach the output unchanged, and the filter/restore step neither loses   *)
(* nor duplicates a file.                                                  *)

\* the positions of the dots of a file name
Dots(name) == {i \in 1..Len(name) : SubSeq(name, i, i) = "."}

\* the extension of a file name: what follows its last dot
Extension(name) ==
    IF Dots(name) = {} THEN ""
    ELSE LET last == CHOOSE i \in Dots(name) : \A j \in Dots(name) : j <= i
         IN  SubSeq(name, last + 1, Len(name))

RasterImage(file) == Extension(file[Len(file)]) \in {"bmp", "png", "jpg"}

\* the files each stream of projectFiles reads
InputsOf(from) ==
    CASE from = "system" ->
            {p \in fsys : Len(p) > 1 /\ p[1] = configuration.systemDir}
            \ {<<configuration.systemDir, n>> : n \in EbootVariantNames}
      [] from = "additional" ->
            {p \in fsys : \E i \in DOMAIN configuration.files :
                \/ configuration.files[i] = "*assets/**/*" /\ p[1] = "assets" /\ Len(p) > 1
                \/ configuration.files[i] = "extra/*" /\ p[1] = "extra" /\ Len(p) = 2}
      [] from = "source" ->
            {p \in fsys : Len(p) > 1 /\ p[1] = configuration.sourceDir}
      [] from = "eboot" -> {<<configuration.systemDir, "eboot_" \o TypeUsed \o ".bin">>}
      [] from = "sfo" -> {<<"tmp", "param.sfo">>}

Streams == {"system", "additional", "source", "eboot", "sfo"}

C16_RecompressionOnlyOfImages ==
    \A a \in Archive :
        /\ \A e \in a.entries :
              e.quant <=> (e.from \in {"system", "additional"} /\ RasterImage(e.of))
        /\ \A from \in Streams :
              /\ {e.of : e \in {x \in a.entries : x.from = from}} = InputsOf(from)
              /\ \A file \in InputsOf(from) :
                    Cardinality({e \in a.entries : e.from = from /\ e.of = file}) = 1
        /\ \A e \in a.entries :
              e.path = CASE e.from = "additional" /\ e.of[1] = "assets" -> e.of
                         [] e.from = "eboot" -> <<"eboot.bin">>
                         [] e.from = "sfo" -> <<"sce_sys", "param.sfo">>
                         [] OTHER -> Tail(e.of)

C16_Witness ==
    \E a \in Archive :
        /\ \E e \in a.entries :
              e.of = <<"system", "sce_sys", "pic0.jpg">> /\ e.quant
        /\ \E e \in a.entries : e.of = <<"assets", "bg.bmp">> /\ e.quant
        /\ \E e \in a.entries : e.of = <<"assets", "100x100.png">> /\ e.quant
        /\ \E e \in a.entries : e.of = <<"assets", "readme.png.txt">> /\ ~e.quant
        /\ \E e \in a.entries : e.of = <<"out-src", "logo.png">> /\ ~e.quant
        /\ \E e \in a.entries : e.of = <<"system", "eboot.bin">> /\ ~e.quant

----------------------------------------------------------------------------
(* C17: on every exit path of deployAsync that has opened the FTP          *)
(* connection (success, or a failure of list, of a cd, of the upload or of *)
(* the clearing of tempDir) the connection has been closed by the time     *)
(* deployAsync settles.                                                    *)

C17_FtpClosedWhenSettled ==
    (task = "deploy" /\ DidOk("ftp.access") /\ taskState # "pending") =>
        ftp.state = "closed"

----------------------------------------------------------------------------
(* C18: the tasks build and default signal completion only after           *)
(* <title>.vpk has been written to outDir, and a failure while merging,    *)
(* zipping or writing the archive makes the task fail.                     *)

C18_BuildCompletesAfterArchive ==
    task \in {"build", "default"} =>
        /\ taskState = "resolved" =>
              /\ DidOk("zip dest")
              /\ \E a \in outDir :
                    /\ a.name = configuration.title \o ".vpk"
                    /\ a.entries = projectFiles(configuration, fsys)
        /\ (\E i \in Idx : log[i] = Ev("zip dest", FALSE)) => taskState = "rejected"

====
